---------------------------- MODULE Spec2Model ----------------------------
(***************************************************************************)
(* The two scripts of the repository, modelled from their source:          *)
(*                                                                         *)
(*   old/setup_files/clearArea_calc.py   flatten_area, clear_area          *)
(*   tree_house.py                       start-up, build_treehouse         *)
(*                                                                         *)
(* Both talk to one external collaborator, the editor: getBlock reads the  *)
(* live world and placeBlock writes it (the default Editor is unbuffered). *)
(* `world` is that live world, `calls` the placeBlock calls issued so far. *)
(* SpecClear runs one function of clearArea_calc.py, SpecTree runs         *)
(* tree_house.py; the scripts share no state, so each specification keeps  *)
(* the other script's variables at their idle values.                      *)
(***************************************************************************)
EXTENDS Integers, Sequences, FiniteSets, TLC

VARIABLES
    pc,          \* position of the running script
    world,       \* live world: position <<x, y, z>> -> block id
    world0,      \* history: the world when the script started
    calls,       \* history: sequence of placeBlock calls [pos, id, pass]
    build_area,  \* the build area box: [begin |-> <<x,y,z>>, size |-> <<x,y,z>>]
    \* ---- clearArea_calc.py
    fn,          \* which function of clearArea_calc.py runs
    bottom,      \* world_slice.heightmaps["MOTION_BLOCKING_NO_LEAVES"]
    top,         \* world_slice.heightmaps["WORLD_SURFACE"]
    heightmap,   \* the heightmap argument
    hm0,         \* history: the three heightmaps when the function was called
    x, z,        \* loop variables of the column loops
    start, end,  \* clear_area locals
    block,       \* last block read with editor.getBlock
    y,           \* loop variable of the for loop of line 39
    iters,       \* history: iterations of the while loop in the current column
    visits,      \* history: column -> number of times the loop body was entered
    startAt,     \* history: column -> start when its while loop exited
    \* ---- tree_house.py
    slice,       \* whether editor.loadWorldSlice has been called
    exit_status, \* the status the script ended with; 0 while it runs
    log,         \* history: the start-up steps that succeeded, in order
    base         \* history: the world when the leaf pass started

vars == <<pc, world, world0, calls, build_area, fn, bottom, top, heightmap, hm0,
          x, z, start, end, block, y, iters, visits, startAt,
          slice, exit_status, log, base>>

clearVars == <<fn, bottom, top, heightmap, hm0, x, z, start, end, block, y,
               iters, visits, startAt>>

treeVars == <<slice, exit_status, log, base>>

----------------------------------------------------------------------------
(* Bounds of the model *)

\* heightmap values range over 0..MaxH, world levels over -1..MaxH-1
MaxH == 2
\* number of columns of buildRect
MaxCols == 2

----------------------------------------------------------------------------
(* Block ids and the editor *)

\* Python's `sub in s` on strings
In(sub, s) ==
    \E i \in 1..(Len(s) - Len(sub) + 1) : SubSeq(s, i, i + Len(sub) - 1) = sub

\* Block("air") carries the id "air"; the world stores namespaced ids
Namespaced(id) == IF In(":", id) THEN id ELSE "minecraft:" \o id

AIR == "minecraft:air"

\* block ids the terrain may hold when a script starts
Terrain == {"minecraft:air", "minecraft:stone", "minecraft:dirt",
            "minecraft:oak_log", "minecraft:oak_leaves",
            "minecraft:red_mushroom_block"}

\* editor.getBlock(pos): the live world; outside the world there is void air
getBlock(pos) == IF pos \in DOMAIN world THEN world[pos] ELSE "minecraft:void_air"

\* editor.placeBlock(pos, Block(id)): the world after the call
placeBlock(w, pos, id) ==
    IF pos \in DOMAIN w THEN [w EXCEPT ![pos] = Namespaced(id)] ELSE w

Call(pos, id, pass) == [pos |-> pos, id |-> id, pass |-> pass]

\* Box.contains: begin <= pos < begin + size on all three axes
InBuildArea(area, pos) ==
    \A i \in 1..3 : area.begin[i] <= pos[i] /\ pos[i] < area.begin[i] + area.size[i]

----------------------------------------------------------------------------
(* clearArea_calc.py *)

\* buildRect = build_area.toRect(): the XZ rectangle of the box
buildRect == [_offset |-> <<build_area.begin[1], build_area.begin[3]>>,
              size    |-> <<build_area.size[1], build_area.size[3]>>]

RectOf(area) == [_offset |-> <<area.begin[1], area.begin[3]>>,
                 size    |-> <<area.size[1], area.size[3]>>]

\* the columns the two range() loops of lines 14-15 and 29-30 visit
ColumnsOf(rect) ==
    {<<cx, cz>> : cx \in rect._offset[1]..(rect._offset[1] + rect.size[1] - 1),
                  cz \in rect._offset[2]..(rect._offset[2] + rect.size[2] - 1)}

Columns == ColumnsOf(buildRect)

\* index of column (cx, cz) in a heightmap: (x - offset[0], z - offset[1])
Local(cx, cz) == <<cx - buildRect._offset[1], cz - buildRect._offset[2]>>

Levels == (0 - 1)..(MaxH - 1)

\* the condition of the while loop of line 34
WhileCondGE(blk, st) ==
    (In("log", blk) \/ In("leaves", blk) \/ In("mushroom", blk)) /\ st >= 0

WhileCondNoLeaves(blk, st) ==
    (In("log", blk) \/ In("mushroom", blk)) /\ st > 0

WhileCond(blk, st) ==
    (In("log", blk) \/ In("leaves", blk) \/ In("mushroom", blk)) /\ st > 0

\* the condition of line 37
DirtCond(blk) == In("dirt", blk)

\* range(start, end) of line 39
ClearRangeSkipFirst(st, en) == (st + 1)..(en - 1)

ClearRange(st, en) == st..(en - 1)

\* the nested range() loops advance z first, then x; FALSE when exhausted
HasNext(cx, cz) ==
    \/ cz + 1 < buildRect._offset[2] + buildRect.size[2]
    \/ cx + 1 < buildRect._offset[1] + buildRect.size[1]

NextX(cx, cz) ==
    IF cz + 1 < buildRect._offset[2] + buildRect.size[2] THEN cx ELSE cx + 1

NextZ(cx, cz) ==
    IF cz + 1 < buildRect._offset[2] + buildRect.size[2] THEN cz + 1
    ELSE buildRect._offset[2]

\* flatten_area line 8: min = build_area.begin[1] - 1
FlattenLevel == build_area.begin[2] - 1

\* lines 29-33: enter the body for column (x, z): read the two heightmaps
\* and the block below start
EnterColumn ==
    /\ pc = "column"
    /\ start' = bottom[Local(x, z)]
    /\ end' = top[Local(x, z)]
    /\ block' = getBlock(<<x, bottom[Local(x, z)] - 1, z>>)
    /\ iters' = 0
    /\ visits' = [visits EXCEPT ![<<x, z>>] = @ + 1]
    /\ pc' = "while"
    /\ UNCHANGED <<world, world0, calls, build_area, fn, bottom, top, heightmap,
                   hm0, x, z, y, startAt, treeVars>>

\* lines 34-36: one iteration of the while loop
WhileIterInPlace ==
    /\ pc = "while"
    /\ WhileCond(block, start)
    /\ start' = start - 1
    /\ bottom' = [bottom EXCEPT ![Local(x, z)] = @ - 1]
    /\ block' = getBlock(<<x, start - 2, z>>)
    /\ iters' = iters + 1
    /\ UNCHANGED <<pc, world, world0, calls, build_area, fn, top, heightmap,
                   hm0, x, z, end, y, visits, startAt, treeVars>>

WhileIter ==
    /\ pc = "while"
    /\ WhileCond(block, start)
    /\ start' = start - 1
    /\ block' = getBlock(<<x, start - 2, z>>)
    /\ iters' = iters + 1
    /\ UNCHANGED <<pc, world, world0, calls, build_area, fn, bottom, top,
                   heightmap, hm0, x, z, end, y, visits, startAt, treeVars>>

\* lines 34, 37-38: the while loop exits; a dirt block below start is removed
IfDirt ==
    /\ pc = "while"
    /\ ~WhileCond(block, start)
    /\ startAt' = [startAt EXCEPT ![<<x, z>>] = start]
    /\ IF DirtCond(block)
       THEN /\ world' = placeBlock(world, <<x, start - 1, z>>, "air")
            /\ calls' = Append(calls, Call(<<x, start - 1, z>>, "air", "dirt"))
       ELSE UNCHANGED <<world, calls>>
    /\ y' = start
    /\ pc' = "for"
    /\ UNCHANGED <<world0, build_area, fn, bottom, top, heightmap, hm0, x, z,
                   start, end, block, iters, visits, treeVars>>

\* lines 39-40: one iteration of the for loop
ForY ==
    /\ pc = "for"
    /\ y \in ClearRange(start, end)
    /\ world' = placeBlock(world, <<x, y, z>>, "air")
    /\ calls' = Append(calls, Call(<<x, y, z>>, "air", "clear"))
    /\ y' = y + 1
    /\ UNCHANGED <<pc, world0, build_area, fn, bottom, top, heightmap, hm0,
                   x, z, start, end, block, iters, visits, startAt, treeVars>>

\* lines 29-30, 39, 41: the for loop is exhausted; next column, or "Done!"
NextColumn ==
    /\ pc = "for"
    /\ y \notin ClearRange(start, end)
    /\ IF HasNext(x, z)
       THEN /\ x' = NextX(x, z)
            /\ z' = NextZ(x, z)
            /\ pc' = "column"
       ELSE /\ pc' = "done"
            /\ UNCHANGED <<x, z>>
    /\ UNCHANGED <<world, world0, calls, build_area, fn, bottom, top, heightmap,
                   hm0, start, end, block, y, iters, visits, startAt, treeVars>>

\* flatten_area lines 14-19: the body for column (x, z)
FlattenColumn ==
    /\ pc = "flatten"
    /\ block' = getBlock(<<x, FlattenLevel, z>>)
    /\ world' = placeBlock(world, <<x, FlattenLevel, z>>, "grass_block")
    /\ calls' = Append(calls, Call(<<x, FlattenLevel, z>>, "grass_block", "flatten"))
    /\ visits' = [visits EXCEPT ![<<x, z>>] = @ + 1]
    /\ IF HasNext(x, z)
       THEN /\ x' = NextX(x, z)
            /\ z' = NextZ(x, z)
            /\ pc' = "flatten"
       ELSE /\ pc' = "flattened"
            /\ UNCHANGED <<x, z>>
    /\ UNCHANGED <<world0, build_area, fn, bottom, top, heightmap, hm0,
                   start, end, y, iters, startAt, treeVars>>

----------------------------------------------------------------------------
(* The worlds and heightmaps clearArea_calc.py is started on *)

\* build areas: both orientations of a row of MaxCols columns
ClearAreas ==
    {[begin |-> <<2, 0, 5>>, size |-> <<s[1], MaxH, s[2]>>] :
        s \in {<<MaxCols, 1>>, <<1, MaxCols>>}}

\* flatten_area reads build_area.begin[1]: two base levels
FlattenAreas ==
    {[begin |-> <<2, by, 5>>, size |-> <<s[1], MaxH, s[2]>>] :
        by \in {0, 1}, s \in {<<MaxCols, 1>>, <<1, MaxCols>>}}

\* a pair of heights of one column: WORLD_SURFACE is never below
\* MOTION_BLOCKING_NO_LEAVES in a world slice
HeightPairs == {hp \in (0..MaxH) \X (0..MaxH) : hp[1] <= hp[2]}

\* every content and every pair of heights of one column
AnyColumn ==
    {[blocks |-> fb, heights |-> fh] : fb \in [Levels -> Terrain], fh \in HeightPairs}

\* a tree on dirt, and bare stone
TreeColumn ==
    [blocks  |-> [lv \in Levels |-> IF lv < 0 THEN "minecraft:dirt"
                                    ELSE IF lv = 0 THEN "minecraft:oak_log"
                                    ELSE "minecraft:oak_leaves"],
     heights |-> <<1, MaxH>>]

BareColumn ==
    [blocks  |-> [lv \in Levels |-> IF lv < 0 THEN "minecraft:stone" ELSE AIR],
     heights |-> <<0, 0>>]

\* the state in which function f is called on `area`, column c holding col[c]
Called(f, area, col) ==
    LET cols == ColumnsOf(RectOf(area))
        glob(i) == <<i[1] + area.begin[1], i[2] + area.begin[3]>>
        idx == {<<c[1] - area.begin[1], c[2] - area.begin[3]>> : c \in cols}
        w  == [p \in {<<c[1], lv, c[2]>> : c \in cols, lv \in Levels} |->
                  col[<<p[1], p[3]>>].blocks[p[2]]]
        b  == [i \in idx |-> col[glob(i)].heights[1]]
        t  == [i \in idx |-> col[glob(i)].heights[2]]
    IN  /\ build_area = area
        /\ fn = f
        /\ world = w
        /\ world0 = w
        /\ bottom = b
        /\ top = t
        /\ heightmap = b
        /\ hm0 = <<b, t, b>>
        /\ calls = <<>>
        /\ x = area.begin[1]
        /\ z = area.begin[3]
        /\ start = 0
        /\ end = 0
        /\ y = 0
        /\ block = AIR
        /\ iters = 0
        /\ visits = [c \in cols |-> 0]
        /\ startAt = [c \in cols |-> 0]
        /\ pc = IF f = "clear_area" THEN "column" ELSE "flatten"
        /\ slice = FALSE
        /\ exit_status = 0
        /\ log = <<>>
        /\ base = <<>>

\* clear_area: one column is arbitrary, the others hold a tree on dirt
InitClearArea ==
    \E area \in ClearAreas :
    \E free \in ColumnsOf(RectOf(area)), fc \in AnyColumn :
        Called("clear_area", area,
               [c \in ColumnsOf(RectOf(area)) |-> IF c = free THEN fc ELSE TreeColumn])

\* flatten_area: every column is a tree on dirt or bare stone
InitFlattenArea ==
    \E area \in FlattenAreas :
    \E col \in [ColumnsOf(RectOf(area)) -> {TreeColumn, BareColumn}] :
        Called("flatten_area", area, col)

InitClear == InitClearArea \/ InitFlattenArea

NextClear ==
    \/ EnterColumn
    \/ WhileIter
    \/ IfDirt
    \/ ForY
    \/ NextColumn
    \/ FlattenColumn

SpecClear == InitClear /\ [][NextClear]_vars

\* the script is not suspended: a Python loop that can step, steps
SpecClearFair == SpecClear /\ WF_vars(NextClear)

----------------------------------------------------------------------------
(* tree_house.py *)

\* the arguments of the call of line 147
tree_height == 15
platform_height == 10
platform_radius == 3
house_height == 4
block_type == "oak_log"

\* bound on the random draws of the leaf pass that fall below leaf_density
MaxLeaves == 1

\* starting_pos = buildArea.begin
starting_pos == build_area.begin

\* starting_pos + np.array([dx, dy, dz])
At(dx, dy, dz) == <<starting_pos[1] + dx, starting_pos[2] + dy, starting_pos[3] + dz>>

\* Python's range(a, b, st) as the sequence of its values, st > 0
range(a, b, st) ==
    [i \in 1..(IF b > a THEN ((b - a) + (st - 1)) \div st ELSE 0) |-> a + (i - 1) * st]

\* the iterations of `for a in as: for b in bs:`, in order
Loop2(as, bs) ==
    [k \in 1..(Len(as) * Len(bs)) |->
        <<as[((k - 1) \div Len(bs)) + 1], bs[((k - 1) % Len(bs)) + 1]>>]

\* the iterations of `for a in as: for b in bs: for c in cs:`, in order
Loop3(as, bs, cs) ==
    [k \in 1..(Len(as) * Len(bs) * Len(cs)) |->
        <<as[((k - 1) \div (Len(bs) * Len(cs))) + 1],
          bs[((((k - 1) \div Len(cs))) % Len(bs)) + 1],
          cs[((k - 1) % Len(cs)) + 1]>>]

\* the world after the placeBlock calls cs[lo], .., cs[hi], issued in order:
\* the first half of them, then the second half (the test on the domains,
\* which placeBlock never changes, makes TLC compute the first half first)
RECURSIVE PlaceFrom(_, _, _, _)
PlaceFrom(w, cs, lo, hi) ==
    IF lo > hi THEN w
    ELSE IF lo = hi THEN placeBlock(w, cs[lo].pos, cs[lo].id)
    ELSE LET mid   == (lo + hi) \div 2
             first == PlaceFrom(w, cs, lo, mid)
         IN  IF DOMAIN first = DOMAIN w THEN PlaceFrom(first, cs, mid + 1, hi) ELSE w

Place(w, cs) == PlaceFrom(w, cs, 1, Len(cs))

\* line 104
PlatformCondStrict(dx, dz) == dx * dx + dz * dz < platform_radius * platform_radius

PlatformCond(dx, dz) == dx * dx + dz * dz <= platform_radius * platform_radius

\* lines 102-105: the platform
PlatformCalls ==
    LET r   == range(0 - platform_radius, platform_radius + 1, 1)
        it  == Loop2(r, r)
        keep(p) == PlatformCond(p[1], p[2])
        sel == SelectSeq(it, keep)
    IN  [i \in 1..Len(sel) |->
            Call(At(sel[i][1], platform_height, sel[i][2]), "oak_log", "platform")]

\* line 111
WallCondCorners(dx, dz) ==
    /\ dx \in {0 - platform_radius, platform_radius}
    /\ dz \in {0 - platform_radius, platform_radius}

WallCond(dx, dz) ==
    \/ dx \in {0 - platform_radius, platform_radius}
    \/ dz \in {0 - platform_radius, platform_radius}

\* lines 108-114: the walls, and air inside them
WallCalls ==
    LET r  == range(0 - platform_radius, platform_radius + 1, 1)
        it == Loop3(range(0, house_height, 1), r, r)
    IN  [i \in 1..Len(it) |->
            Call(At(it[i][2], platform_height + 1 + it[i][1], it[i][3]),
                 IF WallCond(it[i][2], it[i][3]) THEN block_type ELSE "air",
                 "walls")]

\* lines 115-116: the trunk
TrunkCalls ==
    LET it == range(0, tree_height, 1)
    IN  [i \in 1..Len(it) |-> Call(At(0, it[i], 0), "oak_log", "trunk")]

\* line 121: `and` binds tighter than `or`
WindowCond(dx, dz) ==
    \/ dx \in {0 - platform_radius, platform_radius - 1}
    \/ /\ dz \in {0 - platform_radius, platform_radius - 1}
       /\ (dx # platform_radius \/ dz # 0 - platform_radius)

\* lines 118-122: the windows
WindowCalls ==
    LET r   == range(0 - platform_radius, platform_radius, 2)
        it  == Loop3(range(1, house_height - 1, 1), r, r)
        keep(p) == WindowCond(p[2], p[3])
        sel == SelectSeq(it, keep)
    IN  [i \in 1..Len(sel) |->
            Call(At(sel[i][2], platform_height + sel[i][1], sel[i][3]), "glass", "windows")]

\* lines 125-127: the roof
RoofCalls ==
    LET r  == range(0 - platform_radius - 1, platform_radius + 2, 1)
        it == Loop2(r, r)
    IN  [i \in 1..Len(it) |->
            Call(At(it[i][1], platform_height + house_height, it[i][2]), "oak_slab", "roof")]

\* lines 130-132: the ladder
LadderCallsOneVoxel ==
    LET it == range(1, platform_height + 3, 1)
    IN  [i \in 1..Len(it) |-> Call(At(0, 1, 0 - 1), "ladder", "ladder")]

LadderCalls ==
    LET it == range(1, platform_height + 3, 1)
    IN  [i \in 1..Len(it) |-> Call(At(0, it[i], 0 - 1), "ladder", "ladder")]

\* line 135: the door
DoorCalls ==
    <<Call(At(1, platform_height + 1, 0 - platform_radius), "oak_fence_gate", "door")>>

\* lines 140-142: the iterations <<y, x, z>> of the leaf loops
LeafIterations ==
    LET r == range(0 - platform_radius - 1, platform_radius + 2, 1)
    IN  Loop3(range(0, house_height + 2, 1), r, r)

\* line 143 and the first operand of line 144: the iterations that draw
LeafCondWalls(dy, dx, dz) ==
    \/ dx \in {0 - platform_radius, platform_radius}
    \/ dz \in {0 - platform_radius, platform_radius}
    \/ dy = house_height + 1

LeafCond(dy, dx, dz) ==
    \/ dx \in {0 - platform_radius - 1, platform_radius + 1}
    \/ dz \in {0 - platform_radius - 1, platform_radius + 1}
    \/ dy = house_height + 1

\* `and` evaluates random.random() only in the iterations LeafCond selects
Drawing ==
    {k \in 1..Len(LeafIterations) :
        LeafCond(LeafIterations[k][1], LeafIterations[k][2], LeafIterations[k][3])}

\* the subsets of S of at most n elements
RECURSIVE AtMost(_, _)
AtMost(S, n) ==
    IF n = 0 THEN {{}}
    ELSE {{}} \cup UNION {{{e} \cup T : T \in AtMost({f \in S : f > e}, n - 1)} : e \in S}

\* line 145: the calls of a run in which exactly the draws of the
\* iterations in `lucky` fall below leaf_density
LeafCalls(lucky) ==
    LET it  == LeafIterations
        idx == [k \in 1..Len(it) |-> k]
        keep(k) == k \in lucky
        sel == SelectSeq(idx, keep)
    IN  [i \in 1..Len(sel) |->
            Call(At(it[sel[i]][2], platform_height + it[sel[i]][1], it[sel[i]][3]),
                 "spruce_leaves", "leaves")]

\* build areas the external tool may report
TreeAreas == {[begin |-> <<0, 0, 0>>, size |-> <<9, 16, 9>>],
              [begin |-> <<1, 1, 1>>, size |-> <<5, 12, 5>>]}

\* the part of the world the script can reach from any of them
TreeWorld ==
    {<<vx, vy, vz>> :
        vx \in (0 - platform_radius - 1)..(platform_radius + 2),
        vy \in 0..(platform_height + house_height + 2),
        vz \in (0 - platform_radius - 1)..(platform_radius + 2)}

\* lines 22-23: editor.checkConnection() succeeds
CheckConnection ==
    /\ pc = "checkConnection"
    /\ log' = Append(log, "checkConnection")
    /\ pc' = "getBuildArea"
    /\ UNCHANGED <<world, world0, calls, build_area, clearVars, slice, exit_status, base>>

\* lines 24-31: InterfaceConnectionError: print and sys.exit(1)
ConnectionErrorIgnored ==
    /\ pc = "checkConnection"
    /\ pc' = "getBuildArea"
    /\ UNCHANGED <<world, world0, calls, build_area, clearVars, treeVars>>

ConnectionError ==
    /\ pc = "checkConnection"
    /\ exit_status' = 1
    /\ pc' = "exit"
    /\ UNCHANGED <<world, world0, calls, build_area, clearVars, slice, log, base>>

\* lines 35-36: editor.getBuildArea() succeeds
GetBuildArea ==
    /\ pc = "getBuildArea"
    /\ \E area \in TreeAreas : build_area' = area
    /\ log' = Append(log, "getBuildArea")
    /\ pc' = "loadWorldSlice"
    /\ UNCHANGED <<world, world0, calls, clearVars, slice, exit_status, base>>

\* lines 37-45: BuildAreaNotSetError: print and sys.exit(1)
BuildAreaNotSet ==
    /\ pc = "getBuildArea"
    /\ exit_status' = 1
    /\ pc' = "exit"
    /\ UNCHANGED <<world, world0, calls, build_area, clearVars, slice, log, base>>

\* lines 61-94: load the world slice and print what it holds
LoadWorldSlice ==
    /\ pc = "loadWorldSlice"
    /\ slice' = TRUE
    /\ log' = Append(log, "loadWorldSlice")
    /\ pc' = "platform"
    /\ UNCHANGED <<world, world0, calls, build_area, clearVars, exit_status, base>>

\* one pass of build_treehouse: its calls are issued in order
Pass(at, cs, next) ==
    /\ pc = at
    /\ world' = Place(world, cs)
    /\ calls' = calls \o cs
    /\ pc' = next
    /\ UNCHANGED <<world0, build_area, clearVars, slice, exit_status, log>>

Platform == Pass("platform", PlatformCalls, "walls") /\ UNCHANGED base
Walls    == Pass("walls", WallCalls, "trunk") /\ UNCHANGED base
Trunk    == Pass("trunk", TrunkCalls, "windows") /\ UNCHANGED base
Windows  == Pass("windows", WindowCalls, "roof") /\ UNCHANGED base
Roof     == Pass("roof", RoofCalls, "ladder") /\ UNCHANGED base
Ladder   == Pass("ladder", LadderCalls, "door") /\ UNCHANGED base
Door     == Pass("door", DoorCalls, "leaves") /\ UNCHANGED base

\* lines 138-145: the leaf pass, for one outcome of its draws; then the
\* script ends
Leaves ==
    /\ pc = "leaves"
    /\ \E lucky \in AtMost(Drawing, MaxLeaves) :
          /\ Pass("leaves", LeafCalls(lucky), "finished")
          /\ base' = world

\* the script starts in a world of air over stone ground
InitTree ==
    \E ground \in {0, 1} :
        /\ pc = "checkConnection"
        /\ world = [v \in TreeWorld |-> IF v[2] < ground THEN "minecraft:stone" ELSE AIR]
        /\ world0 = world
        /\ calls = <<>>
        /\ build_area = "unset"
        /\ slice = FALSE
        /\ exit_status = 0
        /\ log = <<>>
        /\ base = <<>>
        /\ fn = "none"
        /\ bottom = <<>>
        /\ top = <<>>
        /\ heightmap = <<>>
        /\ hm0 = <<>>
        /\ x = 0
        /\ z = 0
        /\ start = 0
        /\ end = 0
        /\ y = 0
        /\ block = AIR
        /\ iters = 0
        /\ visits = <<>>
        /\ startAt = <<>>

NextTree ==
    \/ CheckConnection
    \/ ConnectionError
    \/ GetBuildArea
    \/ BuildAreaNotSet
    \/ LoadWorldSlice
    \/ Platform
    \/ Walls
    \/ Trunk
    \/ Windows
    \/ Roof
    \/ Ladder
    \/ Door
    \/ Leaves

SpecTree == InitTree /\ [][NextTree]_vars

----------------------------------------------------------------------------
(* Claims about clearArea_calc.py *)

\* an id of the kind the while loop of clear_area steps over
TreeId(id) == In("log", id) \/ In("leaves", id) \/ In("mushroom", id)

Returned == fn = "clear_area" /\ pc = "done"

\* C1: when clear_area returns, in every column of buildRect every block at a
\* height y with start <= y < WORLD_SURFACE is air, start being the
\* MOTION_BLOCKING_NO_LEAVES height of the column as lowered by the while loop.
C1_ClearedToSurface ==
    Returned =>
        \A c \in Columns : \A lv \in Levels :
            (startAt[c] <= lv /\ lv < top[Local(c[1], c[2])])
                => world[<<c[1], lv, c[2]>>] = AIR

\* clear_area has returned after lowering start in a column and replacing
\* blocks that were not air
C1_Witness ==
    /\ Returned
    /\ \E c \in Columns :
        /\ startAt[c] < bottom[Local(c[1], c[2])]
        /\ bottom[Local(c[1], c[2])] < top[Local(c[1], c[2])]
        /\ \A lv \in startAt[c]..(top[Local(c[1], c[2])] - 1) :
               world0[<<c[1], lv, c[2]>>] # AIR

\* C4: in every column whose MOTION_BLOCKING_NO_LEAVES height is > 0, start
\* is lowered over the contiguous run of log/leaves/mushroom blocks below it,
\* so that on loop exit start = 0 or the block at start - 1 is none of those;
\* every block of the run is air when clear_area returns; and the block at
\* start - 1 is replaced by air if and only if its id contains "dirt".
C4_BoundaryHandling ==
    Returned =>
        \A c \in Columns :
            LET b     == bottom[Local(c[1], c[2])]
                s     == startAt[c]
                below == <<c[1], s - 1, c[2]>>
            IN  b > 0 =>
                  /\ 0 <= s /\ s <= b
                  /\ \A lv \in s..(b - 1) : TreeId(world0[<<c[1], lv, c[2]>>])
                  /\ s = 0 \/ ~TreeId(world0[below])
                  /\ \A lv \in s..(b - 1) : world[<<c[1], lv, c[2]>>] = AIR
                  /\ (\E i \in 1..Len(calls) : calls[i].pos = below)
                         <=> In("dirt", world0[below])
                  /\ world[below] = IF In("dirt", world0[below]) THEN AIR
                                    ELSE world0[below]

\* clear_area has returned after stepping over leaves and a log down to a
\* dirt block, which it removed
C4_Witness ==
    /\ Returned
    /\ \E c \in Columns :
        /\ bottom[Local(c[1], c[2])] = MaxH
        /\ startAt[c] = MaxH - 2
        /\ In("leaves", world0[<<c[1], MaxH - 1, c[2]>>])
        /\ In("log", world0[<<c[1], MaxH - 2, c[2]>>])
        /\ In("dirt", world0[<<c[1], MaxH - 3, c[2]>>])
        /\ world[<<c[1], MaxH - 3, c[2]>>] = AIR

\* C5: no step of clear_area or flatten_area changes an entry of the
\* MOTION_BLOCKING_NO_LEAVES or WORLD_SURFACE heightmap or of the heightmap
\* argument; lowering start changes only the local, and the heights a column
\* works with are those of the original snapshot.
C5_HeightmapsReadOnly ==
    /\ <<bottom, top, heightmap>> = hm0
    /\ (fn = "clear_area" /\ pc \in {"while", "for"}) =>
          /\ start + iters = hm0[1][Local(x, z)]
          /\ end = hm0[2][Local(x, z)]

\* a later column is being cleared after start was lowered in an earlier one
C5_Witness ==
    /\ fn = "clear_area"
    /\ pc = "for"
    /\ \E c \in Columns : visits[c] = 1 /\ c # <<x, z>>
                          /\ startAt[c] < bottom[Local(c[1], c[2])]
    /\ iters > 0

Max0(n) == IF n > 0 THEN n ELSE 0

C9_Bounded ==
    fn = "clear_area" =>
        /\ \A c \in Columns : visits[c] <= 1
        /\ pc \in {"while", "for"} =>
              /\ iters <= Max0(hm0[1][Local(x, z)])
              /\ start = hm0[1][Local(x, z)] - iters
              /\ hm0[1][Local(x, z)] <= 0 => iters = 0
        /\ pc = "done" => \A c \in Columns : visits[c] = 1

\* C9: clear_area always terminates: the while loop of a column runs at most
\* max(start, 0) iterations, none when the column's height is <= 0, and after
\* finitely many steps every column has been processed exactly once and
\* "Done!" is reached.
C9_Terminates ==
    /\ []C9_Bounded
    /\ (fn = "clear_area") ~> (pc = "done")

\* clear_area has returned; one column's loop ran as often as its height
\* allows, and a column of height 0 standing on a log ran it not at all
C9_Witness ==
    /\ Returned
    /\ \E c \in Columns :
          bottom[Local(c[1], c[2])] > 0 /\ startAt[c] = 0
    /\ \E c \in Columns :
          /\ bottom[Local(c[1], c[2])] = 0
          /\ TreeId(world0[<<c[1], 0 - 1, c[2]>>])

----------------------------------------------------------------------------
(* Claims about tree_house.py *)

Finished == pc = "finished"

\* offsets from starting_pos within the square of the house
Side == (0 - platform_radius)..platform_radius

\* the square ring of the walls
Ring == {d \in Side \X Side :
            d[1] \in {0 - platform_radius, platform_radius}
         \/ d[2] \in {0 - platform_radius, platform_radius}}

\* the disc of the platform
Disc == {d \in Side \X Side : d[1] * d[1] + d[2] * d[2] <= platform_radius * platform_radius}

\* C2: every placeBlock call of build_treehouse (as invoked in line 147), of
\* clear_area and of flatten_area targets a position inside the build area
\* box: begin <= position < begin + size on all three axes.
C2_PlacementsInsideBuildArea ==
    \A i \in DOMAIN calls : InBuildArea(build_area, calls[i].pos)

PlatformPassCalls == {i \in DOMAIN calls : calls[i].pass = "platform"}

PlatformPassInDisc ==
    /\ \A i \in PlatformPassCalls :
          /\ calls[i].id = "oak_log"
          /\ \E d \in Disc : calls[i].pos = At(d[1], platform_height, d[2])
    /\ \A d \in Disc :
          \E i \in PlatformPassCalls : calls[i].pos = At(d[1], platform_height, d[2])

\* C6: when build_treehouse returns, every voxel at height platform_height
\* whose offset (x, z) satisfies x*x + z*z <= platform_radius^2 holds oak_log,
\* and the platform pass placed oak_log at no voxel outside this disc.
C6_PlatformComplete ==
    Finished =>
        /\ \A d \in Disc : world[At(d[1], platform_height, d[2])] = "minecraft:oak_log"
        /\ PlatformPassInDisc

\* C6 as amended: the same, except that the voxel at offset (0, -1) of the
\* disc holds the ladder, which passes through the platform.
C6_PlatformExceptLadder ==
    Finished =>
        /\ \A d \in Disc :
              world[At(d[1], platform_height, d[2])] =
                  IF d = <<0, 0 - 1>> THEN "minecraft:ladder" ELSE "minecraft:oak_log"
        /\ PlatformPassInDisc

\* the run has ended: the rim of the disc, air before, holds oak_log and the
\* ladder stands in the platform
C6_Witness ==
    /\ Finished
    /\ world0[At(platform_radius, platform_height, 0)] = AIR
    /\ world[At(platform_radius, platform_height, 0)] = "minecraft:oak_log"
    /\ world[At(0, platform_height, 0 - 1)] = "minecraft:ladder"

WallBlocks == {Namespaced(block_type), "minecraft:glass", "minecraft:oak_fence_gate"}

\* C7: when build_treehouse returns, at each of the levels platform_height + 1
\* .. platform_height + house_height every voxel of the square ring holds the
\* wall block, a glass window or the oak_fence_gate door, and nothing else.
C7_WallsHouseHeightTall ==
    Finished =>
        \A d \in Ring : \A lv \in 1..house_height :
            world[At(d[1], platform_height + lv, d[2])] \in WallBlocks

\* C7 as amended: that holds at the levels platform_height + 1 ..
\* platform_height + house_height - 1; at level platform_height + house_height
\* the roof has replaced the wall and every ring voxel holds oak_slab.
C7_WallsBelowRoof ==
    Finished =>
        \A d \in Ring :
            /\ \A lv \in 1..(house_height - 1) :
                  world[At(d[1], platform_height + lv, d[2])] \in WallBlocks
            /\ world[At(d[1], platform_height + house_height, d[2])] = "minecraft:oak_slab"

\* the run has ended with a window, the door and a wall block on the ring
C7_Witness ==
    /\ Finished
    /\ world[At(0 - platform_radius, platform_height + 1, 0 - platform_radius)]
          = "minecraft:glass"
    /\ world[At(1, platform_height + 1, 0 - platform_radius)] = "minecraft:oak_fence_gate"
    /\ world[At(platform_radius, platform_height + house_height - 1, platform_radius)]
          = Namespaced(block_type)

\* the voxels the leaf scatter may reach: x or z offset +-(platform_radius + 1)
\* at levels platform_height .. platform_height + house_height + 1, and the
\* (2 * platform_radius + 3)^2 layer at level platform_height + house_height + 1
InShell(v) ==
    LET dx == v[1] - starting_pos[1]
        dy == v[2] - starting_pos[2] - platform_height
        dz == v[3] - starting_pos[3]
        out == {0 - platform_radius - 1, platform_radius + 1}
    IN  \/ /\ dy \in 0..(house_height + 1)
           /\ dx \in out \/ dz \in out
        \/ /\ dy = house_height + 1
           /\ dx \in (0 - platform_radius - 1)..(platform_radius + 1)
           /\ dz \in (0 - platform_radius - 1)..(platform_radius + 1)

\* C8: the leaf draws change the result only on the outer shell: whatever the
\* draws, the run ends with the block the earlier passes left at every voxel
\* outside the shell, and with that block or spruce_leaves at every voxel of
\* the shell; no platform, wall, window, ladder or door voxel is replaced by
\* leaves.
C8_LeavesConfinedToShell ==
    Finished =>
        /\ \A v \in DOMAIN world :
              world[v] # base[v] => InShell(v) /\ world[v] = "minecraft:spruce_leaves"
        /\ \A j \in DOMAIN calls : calls[j].pass = "leaves" =>
              \A i \in DOMAIN calls :
                  calls[i].pass \in {"platform", "walls", "windows", "ladder", "door"}
                      => calls[i].pos # calls[j].pos

\* the run has ended with leaves in place of a roof slab on the shell
C8_Witness ==
    /\ Finished
    /\ base[At(platform_radius + 1, platform_height + house_height, 0)] = "minecraft:oak_slab"
    /\ world[At(platform_radius + 1, platform_height + house_height, 0)]
          = "minecraft:spruce_leaves"

Building == {"platform", "walls", "trunk", "windows", "roof", "ladder", "door",
             "leaves", "finished"}

\* C10: if checkConnection raises InterfaceConnectionError or getBuildArea
\* raises BuildAreaNotSetError, the script ends with exit status 1, no world
\* slice is loaded and no placeBlock call is issued; build_treehouse runs only
\* after the connection check and then the build-area fetch have succeeded.
C10_FailedStartupChangesNothing ==
    /\ (pc # "checkConnection" /\ log = <<>>) => exit_status = 1
    /\ (pc \notin {"checkConnection", "getBuildArea"} /\ Len(log) < 2) => exit_status = 1
    /\ exit_status = 1 =>
          pc = "exit" /\ ~slice /\ calls = <<>> /\ world = world0
    /\ (pc \in Building \/ calls # <<>>) =>
          /\ log = <<"checkConnection", "getBuildArea", "loadWorldSlice">>
          /\ exit_status = 0

\* the connection check succeeded and the build area was not set
C10_Witness ==
    /\ exit_status = 1
    /\ log = <<"checkConnection">>
    /\ calls = <<>>

=============================================================================
